---- MODULE Spec2Model ----
(***************************************************************************)
(* Sports-room slot booking (src/app.py): the booking table, the book_game *)
(* request handler run by concurrent workers against one store, the clock, *)
(* the ledger's cancel operation, and the OTP login, verification, logout  *)
(* and admin routes with db_retry_operation.                               *)
(*                                                                         *)
(* Time is counted in minutes.  A civil date is a day number whose day 0   *)
(* is a Monday, so date.weekday() is the day number modulo 7.  An absolute *)
(* instant is the number of minutes since 00:00 UTC of day 0.  A time of   *)
(* day is the pair <<hour, minute>> that strptime('%H:%M') produces.       *)
(***************************************************************************)
EXTENDS Integers, FiniteSets, Sequences, TLC

\* ---------------------------------------------------------------- bounds
NumUsers == 2
NumGames == 2
NumProcs == 2
MaxRequests == 3
LastDate == 4
NumCodes == 2
SiteBookings == 2

\* ------------------------------------------------------ program constants
\* timezone(timedelta(hours=5, minutes=30)), in minutes
IstOffset == 330

DayMinutes == 24 * 60

\* timedelta(minutes=5), the life of an OTP
OtpLifetime == 5
\* db_retry_operation's max_retries, which every caller leaves at its default
MaxRetries == 3
\* app.config['ADMIN_PASSWORD']
AdminPassword == 441106

\* the values secrets.token_hex(3).upper() is drawn from
Codes == 1..NumCodes

Users == 1..NumUsers
\* rows of the games table (seed_data.py); ids above NumGames do not exist
Games == 1..NumGames
Procs == 1..NumProcs

\* the actor of a cancel that holds the administrative capability
Admin == NumUsers + 1

\* civil dates offered to a request: Thursday of week 0 up to LastDate
Dates == 3..LastDate
\* times of day offered to a request
Times == {<<15, 0>>, <<16, 0>>}

\* the wider inputs of the slot-table specification: two whole weeks, every
\* half hour from 13:30 to 17:00, and times off the half-hour grid
LastSlotDate == 13
SlotDates == 0..LastSlotDate
SlotTimes == {<<h, m>> : h \in 13..17, m \in {0, 30}}
               \cup {<<16, 15>>, <<16, 31>>, <<4, 0>>, <<4, 30>>, <<0, 0>>, <<23, 30>>,
                     <<24, 0>>, <<16, 60>>}

\* the request form: a field that was not submitted is absent from the record
Forms(D, T) == [booking_date : D, booking_time : T]
                 \cup [booking_date : D] \cup [booking_time : T]

VARIABLES
    bookings,      \* the booking table: rows [id, user_id, game_id, booking_time]
    nextId,        \* the table's autoincrement primary key
    cancelled,     \* ids of the rows whose status is Cancelled
    now,           \* datetime.now(timezone.utc)
    budget,        \* requests the model still admits
    pc,            \* per worker: where its request stands
    req,           \* per worker: the request it serves
    result,        \* per worker: the outcome reported to the user
    pre,           \* per worker: the ledger and the clock as the request arrived
    mail,          \* per worker: the confirmation e-mail, "none", "sent" or "failed"
    new_booking,   \* per worker: the row the request inserted, or NoRow
    profiles,      \* the profiles table, by username: the committed rows
    cookie,        \* the browser's session: username_for_verification, the
                   \* logged-in user (0 for neither) and admin_logged_in
    authpc,        \* where the login, verification or admin request stands
    areq,          \* that request
    aresult,       \* its outcome
    apre,          \* the profiles table as the request arrived
    rt,            \* db_retry_operation: the operation, attempt and calls made
    uow,           \* db.session: the changes not yet committed
    user_obj,      \* the state of the request's User object
    otp            \* login's otp

authVars == <<profiles, cookie, authpc, areq, aresult, apre, rt, uow, user_obj, otp>>

vars == <<bookings, nextId, cancelled, now, budget, pc, req, result, pre, mail, new_booking,
          authVars>>

NoReq == [op |-> "none"]
NoRow == [id |-> 0]
NoPre == [rows |-> {}, cancelled |-> {}, now |-> 0]

\* ------------------------------------------------------------ the clock
\* selected_date.weekday()
Weekday(d) == d % 7

\* a faulty conversion: the civil time is stored as if it were UTC
ToUtcNoOffset(d, t) == d * DayMinutes + t[1] * 60 + t[2]


\* datetime.combine(date, time).replace(tzinfo=ist_tz).astimezone(timezone.utc)
ToUtc(d, t) == d * DayMinutes + t[1] * 60 + t[2] - IstOffset

\* booking_dt.astimezone(ist_tz): the civil date and the civil time of an instant
CivilDate(i) == (i + IstOffset) \div DayMinutes
CivilTime(i) == <<((i + IstOffset) % DayMinutes) \div 60, ((i + IstOffset) % DayMinutes) % 60>>

\* strftime('%I:%M %p') and strftime('%A, %B %d, %Y') of the instant in the
\* regional zone: the hour on the 12-hour clock with AM or PM, and the day of
\* the week with the date
TimeStr(i) ==
    LET t == CivilTime(i) IN
        <<IF t[1] % 12 = 0 THEN 12 ELSE t[1] % 12, t[2], IF t[1] < 12 THEN "AM" ELSE "PM">>
DateStr(i) == <<Weekday(CivilDate(i)), CivilDate(i)>>

\* the clock starts on Thursday of week 0 at 00:00 UTC, and is later read at
\* the very instant of Friday's 15:00 slot
ClockStart == 3 * DayMinutes
ClockPoints == {ClockStart, ToUtc(4, <<15, 0>>)}
\* the clock readings of the slot-table specification: Thursday 00:00 UTC, the
\* instant of Friday's 15:00 slot, a minute past Monday's 16:00 slot of the
\* next week, and the instant of that week's Wednesday 16:30 slot
SlotClocks == {ClockStart, ToUtc(4, <<15, 0>>), ToUtc(7, <<16, 0>>) + 1, ToUtc(9, <<16, 30>>)}

\* ------------------------------------------------------------ book_game
\* datetime.strptime(booking_time_str, '%H:%M') accepts the pair
WellFormed(t) == t[1] \in 0..23 /\ t[2] \in 0..59

\* a faulty valid_slots: the first branch stops short of Thursday
ValidSlotsShortWeek(weekday) ==
    IF 0 <= weekday /\ weekday < 3
    THEN {<<16, 0>>, <<16, 30>>}
    ELSE IF weekday = 4
         THEN {<<14, 0>>, <<14, 30>>, <<15, 0>>, <<15, 30>>, <<16, 0>>, <<16, 30>>}
         ELSE {}

\* valid_slots for a weekday
ValidSlots(weekday) ==
    IF 0 <= weekday /\ weekday <= 3
    THEN {<<16, 0>>, <<16, 30>>}
    ELSE IF weekday = 4
         THEN {<<14, 0>>, <<14, 30>>, <<15, 0>>, <<15, 30>>, <<16, 0>>, <<16, 30>>}
         ELSE {}

\* a faulty past-slot test: the comparison is missing
IsPastNever(booking_dt, clock) == FALSE

\* the past-slot test
IsPast(booking_dt, clock) == booking_dt < clock

\* the checks made before the ledger is read, in the handler's order; "Pass"
\* when the request goes on to the conflict lookup
Admission(game_id, form, clock) ==
    IF game_id \notin Games THEN "ResourceNotFound"
    ELSE IF "booking_date" \notin DOMAIN form \/ "booking_time" \notin DOMAIN form
         THEN "MissingField"
    ELSE IF ~WellFormed(form.booking_time) THEN "ServerError"
    ELSE IF form.booking_time \notin ValidSlots(Weekday(form.booking_date))
         THEN "InvalidSlot"
    ELSE IF IsPast(ToUtc(form.booking_date, form.booking_time), clock) THEN "PastSlot"
    ELSE "Pass"

\* a faulty conflict lookup: the game is left out of the filter
ExistingAnyGame(rows, game_id, booking_dt) == {b \in rows : b.booking_time = booking_dt}


\* Booking.query.filter_by(game_id=..., booking_time=...)
Existing(rows, game_id, booking_dt) ==
    {b \in rows : b.game_id = game_id /\ b.booking_time = booking_dt}

NoWork == [user |-> 0, new |-> FALSE, otp_hash |-> 0, otp_expiry |-> 0]
NoProfile == [exists |-> FALSE, otp_hash |-> 0, otp_expiry |-> 0]
NoRetry == [op |-> "none", attempt |-> 0, calls |-> 0, status |-> "none", last |-> "none"]
NoAuthReq == [op |-> "none"]
NoAuthResult == [kind |-> "none"]

\* no profile, nobody logged in, no request in hand
AuthInit ==
    /\ profiles = [u \in Users |-> NoProfile]
    /\ cookie = [verify |-> 0, user |-> 0, admin |-> FALSE]
    /\ authpc = "idle"
    /\ areq = NoAuthReq
    /\ aresult = NoAuthResult
    /\ apre = [u \in Users |-> NoProfile]
    /\ rt = NoRetry
    /\ uow = NoWork
    /\ user_obj = "none"
    /\ otp = 0

Init ==
    /\ bookings = {}
    /\ nextId = 1
    /\ cancelled = {}
    /\ now = ClockStart
    /\ budget = MaxRequests
    /\ pc = [p \in Procs |-> "idle"]
    /\ req = [p \in Procs |-> NoReq]
    /\ result = [p \in Procs |-> "none"]
    /\ pre = [p \in Procs |-> NoPre]
    /\ mail = [p \in Procs |-> "none"]
    /\ new_booking = [p \in Procs |-> NoRow]
    /\ AuthInit

\* the clock moves on
Tick ==
    /\ \E n \in ClockPoints : n > now /\ now' = n
    /\ UNCHANGED <<bookings, nextId, cancelled, budget, pc, req, result, pre, mail, new_booking, authVars>>

\* POST /book/<game_id> by the logged-in user u: the game lookup, the form,
\* the slot table and the past test
BookStart(p, u, game_id, form) ==
    /\ pc[p] = "idle"
    /\ budget > 0
    /\ budget' = budget - 1
    /\ req' = [req EXCEPT ![p] = [op |-> "book", user_id |-> u, game_id |-> game_id,
                                  form |-> form]]
    /\ pre' = [pre EXCEPT ![p] = [rows |-> bookings, cancelled |-> cancelled, now |-> now]]
    /\ LET a == Admission(game_id, form, now) IN
         IF a = "Pass"
         THEN /\ pc' = [pc EXCEPT ![p] = "lookup"]
              /\ result' = result
         ELSE /\ pc' = [pc EXCEPT ![p] = "done"]
              /\ result' = [result EXCEPT ![p] = a]
    /\ UNCHANGED <<bookings, nextId, cancelled, now, mail, new_booking, authVars>>

\* the instant a request that passed the admission checks asks for
BookingDt(r) == ToUtc(r.form.booking_date, r.form.booking_time)

\* a faulty lookup: the row is written before the conflict is reported
LookupWritesFirst(p) ==
    /\ pc[p] = "lookup"
    /\ LET row == [id |-> nextId, user_id |-> req[p].user_id,
                   game_id |-> req[p].game_id, booking_time |-> BookingDt(req[p])] IN
         IF Existing(bookings, req[p].game_id, BookingDt(req[p])) # {}
         THEN /\ pc' = [pc EXCEPT ![p] = "done"]
              /\ result' = [result EXCEPT ![p] = "SlotTaken"]
              /\ bookings' = bookings \cup {row}
              /\ nextId' = nextId + 1
         ELSE /\ pc' = [pc EXCEPT ![p] = "insert"]
              /\ result' = result
              /\ UNCHANGED <<bookings, nextId>>
    /\ UNCHANGED <<cancelled, now, budget, req, pre, mail, new_booking, authVars>>


\* existing_booking = Booking.query.filter_by(...).first()
Lookup(p) ==
    /\ pc[p] = "lookup"
    /\ IF Existing(bookings, req[p].game_id, BookingDt(req[p])) # {}
       THEN /\ pc' = [pc EXCEPT ![p] = "done"]
            /\ result' = [result EXCEPT ![p] = "SlotTaken"]
       ELSE /\ pc' = [pc EXCEPT ![p] = "insert"]
            /\ result' = result
    /\ UNCHANGED <<bookings, nextId, cancelled, now, budget, req, pre, mail, new_booking, authVars>>

\* db.session.add(new_booking); db.session.commit()
Insert(p) ==
    /\ pc[p] = "insert"
    /\ LET row == [id |-> nextId, user_id |-> req[p].user_id,
                   game_id |-> req[p].game_id, booking_time |-> BookingDt(req[p])] IN
         /\ bookings' = bookings \cup {row}
         /\ new_booking' = [new_booking EXCEPT ![p] = row]
    /\ nextId' = nextId + 1
    /\ pc' = [pc EXCEPT ![p] = "email"]
    /\ UNCHANGED <<cancelled, now, budget, req, result, pre, mail, authVars>>

\* a faulty book_game: a confirmation that fails deletes the row and fails the
\* request
EmailRollsBack(p, delivered) ==
    /\ pc[p] = "email"
    /\ mail' = [mail EXCEPT ![p] = IF delivered THEN "sent" ELSE "failed"]
    /\ result' = [result EXCEPT ![p] = IF delivered THEN "Success" ELSE "ServerError"]
    /\ bookings' = IF delivered THEN bookings ELSE bookings \ {new_booking[p]}
    /\ pc' = [pc EXCEPT ![p] = "done"]
    /\ UNCHANGED <<nextId, cancelled, now, budget, req, pre, new_booking, authVars>>

\* send_booking_confirmation_email, whose result book_game does not read, then
\* the success flash
Email(p, delivered) ==
    /\ pc[p] = "email"
    /\ mail' = [mail EXCEPT ![p] = IF delivered THEN "sent" ELSE "failed"]
    /\ result' = [result EXCEPT ![p] = "Success"]
    /\ pc' = [pc EXCEPT ![p] = "done"]
    /\ UNCHANGED <<bookings, nextId, cancelled, now, budget, req, pre, new_booking, authVars>>

\* a store call of book_game raises OperationalError, which nothing catches
StoreFail(p) ==
    /\ pc[p] \in {"lookup", "insert"}
    /\ pc' = [pc EXCEPT ![p] = "done"]
    /\ result' = [result EXCEPT ![p] = "ServerError"]
    /\ UNCHANGED <<bookings, nextId, cancelled, now, budget, req, pre, mail, new_booking, authVars>>

\* the response is sent and the worker is free again
Respond(p) ==
    /\ pc[p] = "done"
    /\ pc' = [pc EXCEPT ![p] = "idle"]
    /\ req' = [req EXCEPT ![p] = NoReq]
    /\ result' = [result EXCEPT ![p] = "none"]
    /\ pre' = [pre EXCEPT ![p] = NoPre]
    /\ mail' = [mail EXCEPT ![p] = "none"]
    /\ new_booking' = [new_booking EXCEPT ![p] = NoRow]
    /\ UNCHANGED <<bookings, nextId, cancelled, now, budget, authVars>>

\* ------------------------------------------------------------ cancel
\* Ledger.cancel(reservation_id, actor)
Cancel(p, actor, id) ==
    /\ pc[p] = "idle"
    /\ budget > 0
    /\ \E b \in bookings :
         /\ b.id = id
         /\ LET r == IF actor # b.user_id /\ actor # Admin THEN "Forbidden"
                     ELSE IF id \notin cancelled /\ b.booking_time < now THEN "PastBooking"
                     ELSE "Cancelled" IN
              /\ result' = [result EXCEPT ![p] = r]
              /\ cancelled' = IF r = "Cancelled" THEN cancelled \cup {id} ELSE cancelled
    /\ budget' = budget - 1
    /\ req' = [req EXCEPT ![p] = [op |-> "cancel", actor |-> actor, id |-> id]]
    /\ pre' = [pre EXCEPT ![p] = [rows |-> bookings, cancelled |-> cancelled, now |-> now]]
    /\ pc' = [pc EXCEPT ![p] = "done"]
    /\ UNCHANGED <<bookings, nextId, now, mail, new_booking, authVars>>

Next ==
    \/ Tick
    \/ \E p \in Procs, u \in Users, g \in 1..(NumGames + 1), f \in Forms(Dates, Times) :
         BookStart(p, u, g, f)
    \/ \E p \in Procs : Lookup(p)
    \/ \E p \in Procs : Insert(p)
    \/ \E p \in Procs, d \in BOOLEAN : Email(p, d)
    \/ \E p \in Procs : StoreFail(p)
    \/ \E p \in Procs : Respond(p)
    \/ \E p \in Procs, a \in Users \cup {Admin}, i \in 1..MaxRequests : Cancel(p, a, i)

Spec == Init /\ [][Next]_vars

\* ------------------------------------------- the slot-table specification
\* one request of one worker, its date, time and clock reading drawn from the
\* wider sets
InitSlots ==
    /\ bookings = {}
    /\ nextId = 1
    /\ cancelled = {}
    /\ now \in SlotClocks
    /\ budget = 1
    /\ pc = [p \in Procs |-> "idle"]
    /\ req = [p \in Procs |-> NoReq]
    /\ result = [p \in Procs |-> "none"]
    /\ pre = [p \in Procs |-> NoPre]
    /\ mail = [p \in Procs |-> "none"]
    /\ new_booking = [p \in Procs |-> NoRow]
    /\ AuthInit

NextSlots ==
    \/ \E u \in Users, g \in 1..(NumGames + 1), f \in Forms(SlotDates, SlotTimes) :
         BookStart(1, u, g, f)
    \/ Lookup(1)
    \/ Insert(1)
    \/ \E d \in BOOLEAN : Email(1, d)
    \/ StoreFail(1)
    \/ Respond(1)

SpecSlots == InitSlots /\ [][NextSlots]_vars

\* ------------------------------------------------ the profiles and the OTP
bookVars == <<bookings, nextId, cancelled, budget, pc, req, result, pre, mail, new_booking>>

\* generate_password_hash(otp): a value that is not the code and has one preimage
Hash(c) == 0 - c

\* check_password_hash(user.otp_hash, otp)
CheckPasswordHash(h, c) == h = Hash(c)

\* the readings of the clock while OTPs are issued and verified: the start, a
\* minute later, the expiry of an OTP issued at the start, and a minute past it
AuthClocks == {ClockStart, ClockStart + OtpLifetime}

AuthTick ==
    /\ authpc = "idle"
    /\ pc[1] = "idle"
    /\ \E n \in AuthClocks : n > now /\ now' = n
    /\ UNCHANGED <<bookVars, authVars>>

\* ---------------------------------------------------- db_retry_operation
\* the call db_retry_operation(operation)
StartRetry(op) ==
    [op |-> op, attempt |-> 0, calls |-> 0, status |-> "running", last |-> "none"]

\* return operation(): the invocation of this attempt returned
Returned(r) == [r EXCEPT !.calls = r.calls + 1, !.status = "returned"]

\* except OperationalError: raised again on the last attempt, and otherwise
\* the loop goes round once more
AfterOperationalError(r) ==
    IF r.attempt = MaxRetries - 1
    THEN [r EXCEPT !.calls = r.calls + 1, !.status = "raised", !.last = "OperationalError"]
    ELSE [r EXCEPT !.calls = r.calls + 1, !.attempt = r.attempt + 1,
                   !.last = "OperationalError"]

\* a faulty except clause: it catches every exception, and so retries them all
AfterOtherErrorRetried(r) ==
    IF r.attempt = MaxRetries - 1
    THEN [r EXCEPT !.calls = r.calls + 1, !.status = "raised", !.last = "IntegrityError"]
    ELSE [r EXCEPT !.calls = r.calls + 1, !.attempt = r.attempt + 1,
                   !.last = "IntegrityError"]

\* an exception that is not an OperationalError leaves the loop at once
AfterOtherError(r) ==
    [r EXCEPT !.calls = r.calls + 1, !.status = "raised", !.last = "IntegrityError"]

\* db.session.rollback(); db.session.close(): the User object of a row not yet
\* inserted is expunged with its attributes as they were, the one of a loaded
\* row is expired and detached
ObjAfterRollback(o) ==
    IF o = "pending" THEN "transient" ELSE IF o = "persistent" THEN "detached" ELSE o

\* ---------------------------------------------------------------- login
\* POST /login by a browser that is not logged in
LoginPost(u) ==
    /\ authpc = "idle"
    /\ pc[1] = "idle"
    /\ cookie.user = 0
    /\ areq' = [op |-> "login", user |-> u]
    /\ apre' = profiles
    /\ rt' = StartRetry("get_or_create_user")
    /\ authpc' = "retry"
    /\ UNCHANGED <<now, bookVars, profiles, cookie, aresult, uow, user_obj, otp>>

\* get_or_create_user returns the row of the username, or a new User added to
\* the session
GetOrCreateOk ==
    /\ authpc = "retry" /\ rt.op = "get_or_create_user" /\ rt.status = "running"
    /\ rt' = Returned(rt)
    /\ IF profiles[areq.user].exists
       THEN /\ user_obj' = "persistent"
            /\ uow' = [NoWork EXCEPT !.user = areq.user]
       ELSE /\ user_obj' = "pending"
            /\ uow' = [NoWork EXCEPT !.user = areq.user, !.new = TRUE]
    /\ UNCHANGED <<now, bookVars, profiles, cookie, authpc, areq, aresult, apre, otp>>

\* the handler's except Exception: the generic message, and a rollback
HandlerFails(kind) ==
    /\ aresult' = [kind |-> kind, at |-> now]
    /\ authpc' = "done"
    /\ uow' = NoWork
    /\ user_obj' = ObjAfterRollback(user_obj)

\* the query of get_or_create_user raises OperationalError
GetOrCreateOpErr ==
    /\ authpc = "retry" /\ rt.op = "get_or_create_user" /\ rt.status = "running"
    /\ rt' = AfterOperationalError(rt)
    /\ IF rt'.status = "raised"
       THEN HandlerFails("DbError")
       ELSE /\ uow' = NoWork
            /\ user_obj' = ObjAfterRollback(user_obj)
            /\ UNCHANGED <<authpc, aresult>>
    /\ UNCHANGED <<now, bookVars, profiles, cookie, areq, apre, otp>>

\* otp = secrets.token_hex(3).upper(); the hash and the expiry are set on the
\* User object; db_retry_operation(commit_changes) is called
LoginSetOtp(c) ==
    /\ authpc = "retry" /\ rt.op = "get_or_create_user" /\ rt.status = "returned"
    /\ otp' = c
    /\ uow' = [uow EXCEPT !.otp_hash = Hash(c), !.otp_expiry = now + OtpLifetime]
    /\ rt' = StartRetry("commit_changes")
    /\ UNCHANGED <<now, bookVars, profiles, cookie, authpc, areq, aresult, apre, user_obj>>

\* the profiles table once the session's changes are flushed and committed
Committed(table, w) ==
    IF w.user = 0 THEN table
    ELSE [table EXCEPT ![w.user] =
             [exists |-> TRUE, otp_hash |-> w.otp_hash, otp_expiry |-> w.otp_expiry]]

\* the INSERT of a username that is already in the table breaks its unique
\* constraint
Conflicts(table, w) == w.user # 0 /\ w.new /\ table[w.user].exists

\* db.session.commit() succeeds: with nothing in the session it commits nothing
CommitOk ==
    /\ authpc = "retry" /\ rt.op = "commit_changes" /\ rt.status = "running"
    /\ ~Conflicts(profiles, uow)
    /\ profiles' = Committed(profiles, uow)
    /\ uow' = NoWork
    /\ user_obj' = IF uow.user # 0 THEN "persistent" ELSE user_obj
    /\ rt' = Returned(rt)
    /\ UNCHANGED <<now, bookVars, cookie, authpc, areq, aresult, apre, otp>>

\* db.session.commit() raises IntegrityError: not an OperationalError
CommitConflict ==
    /\ authpc = "retry" /\ rt.op = "commit_changes" /\ rt.status = "running"
    /\ Conflicts(profiles, uow)
    /\ rt' = AfterOtherError(rt)
    /\ IF rt'.status = "raised"
       THEN HandlerFails("DbError")
       ELSE /\ uow' = NoWork
            /\ user_obj' = ObjAfterRollback(user_obj)
            /\ UNCHANGED <<authpc, aresult>>
    /\ UNCHANGED <<now, bookVars, profiles, cookie, areq, apre, otp>>

\* db.session.commit() raises OperationalError, the commit having reached the
\* store or not
CommitOpErr(landed) ==
    /\ authpc = "retry" /\ rt.op = "commit_changes" /\ rt.status = "running"
    /\ landed => ~Conflicts(profiles, uow) /\ uow.user # 0
    /\ profiles' = IF landed THEN Committed(profiles, uow) ELSE profiles
    /\ rt' = AfterOperationalError(rt)
    /\ IF rt'.status = "raised"
       THEN HandlerFails("DbError")
       ELSE /\ uow' = NoWork
            /\ user_obj' = ObjAfterRollback(user_obj)
            /\ UNCHANGED <<authpc, aresult>>
    /\ UNCHANGED <<now, bookVars, cookie, areq, apre, otp>>

\* another process of the application commits a row for the username this
\* request holds as a new User
OtherSignup(c) ==
    /\ authpc = "retry" /\ uow.new /\ ~profiles[uow.user].exists
    /\ profiles' = [profiles EXCEPT ![uow.user] =
                       [exists |-> TRUE, otp_hash |-> Hash(c), otp_expiry |-> now + OtpLifetime]]
    /\ UNCHANGED <<now, bookVars, cookie, authpc, areq, aresult, apre, rt, uow, user_obj, otp>>

\* send_otp_email(user.username, otp): reading the username of a detached
\* User raises; a delivered mail sets username_for_verification
LoginSendOtp(delivered) ==
    /\ authpc = "retry" /\ rt.op = "commit_changes" /\ rt.status = "returned"
    /\ IF user_obj = "detached"
       THEN /\ HandlerFails("DbError")
            /\ cookie' = cookie
       ELSE /\ aresult' = [kind |-> IF delivered THEN "OtpSent" ELSE "MailFailed", at |-> now]
            /\ cookie' = IF delivered THEN [cookie EXCEPT !.verify = areq.user] ELSE cookie
            /\ authpc' = "done"
            /\ UNCHANGED <<uow, user_obj>>
    /\ UNCHANGED <<now, bookVars, profiles, areq, apre, rt, otp>>

\* the response is sent; the request's session is removed
AuthRespond ==
    /\ authpc = "done"
    /\ authpc' = "idle"
    /\ areq' = NoAuthReq
    /\ aresult' = NoAuthResult
    /\ apre' = [u \in Users |-> NoProfile]
    /\ rt' = NoRetry
    /\ uow' = NoWork
    /\ user_obj' = "none"
    /\ otp' = 0
    /\ UNCHANGED <<now, bookVars, profiles, cookie>>

\* ----------------------------------------------------------- verify_otp
\* a faulty is_valid: the expiry is not compared with the clock
IsValidForever(table, u, c, clock) ==
    /\ table[u].exists
    /\ table[u].otp_hash # 0
    /\ CheckPasswordHash(table[u].otp_hash, c)

\* is_valid of verify_and_login
IsValid(table, u, c, clock) ==
    /\ table[u].exists
    /\ table[u].otp_hash # 0
    /\ table[u].otp_expiry > clock
    /\ CheckPasswordHash(table[u].otp_hash, c)

\* user.otp_hash = None; user.otp_expiry = None, committed
Cleared(table, u) == [table EXCEPT ![u].otp_hash = 0, ![u].otp_expiry = 0]

\* POST /verify_otp with a code: without username_for_verification in the
\* session the browser is sent to the login page
VerifyPost(c) ==
    /\ authpc = "idle"
    /\ pc[1] = "idle"
    /\ apre' = profiles
    /\ IF cookie.verify = 0
       THEN /\ areq' = [op |-> "verify", user |-> 0, code |-> c]
            /\ aresult' = [kind |-> "RedirectLogin", at |-> now]
            /\ authpc' = "done"
            /\ rt' = rt
       ELSE /\ areq' = [op |-> "verify", user |-> cookie.verify, code |-> c]
            /\ aresult' = aresult
            /\ authpc' = "retry"
            /\ rt' = StartRetry("verify_and_login")
    /\ UNCHANGED <<now, bookVars, profiles, cookie, uow, user_obj, otp>>

\* verify_and_login returns: True after clearing the OTP, committing and
\* logging the user in, False otherwise
VerifyOk ==
    /\ authpc = "retry" /\ rt.op = "verify_and_login" /\ rt.status = "running"
    /\ rt' = Returned(rt)
    /\ authpc' = "done"
    /\ IF IsValid(profiles, areq.user, areq.code, now)
       THEN /\ profiles' = Cleared(profiles, areq.user)
            /\ cookie' = [cookie EXCEPT !.user = areq.user, !.verify = 0]
            /\ aresult' = [kind |-> "LoggedIn", at |-> now]
       ELSE /\ aresult' = [kind |-> "InvalidOtp", at |-> now]
            /\ UNCHANGED <<profiles, cookie>>
    /\ UNCHANGED <<now, bookVars, areq, apre, uow, user_obj, otp>>

\* verify_and_login raises OperationalError: in its query, or in its commit,
\* which may have reached the store
VerifyOpErr(landed) ==
    /\ authpc = "retry" /\ rt.op = "verify_and_login" /\ rt.status = "running"
    /\ landed => IsValid(profiles, areq.user, areq.code, now)
    /\ profiles' = IF landed THEN Cleared(profiles, areq.user) ELSE profiles
    /\ rt' = AfterOperationalError(rt)
    /\ IF rt'.status = "raised"
       THEN HandlerFails("DbError")
       ELSE /\ uow' = NoWork
            /\ user_obj' = ObjAfterRollback(user_obj)
            /\ UNCHANGED <<authpc, aresult>>
    /\ UNCHANGED <<now, bookVars, cookie, areq, apre, otp>>

\* ------------------------------------------------------ logout and admin
\* a faulty logout: the bookings of the user who logs out are deleted
LogoutDropsRows ==
    /\ authpc = "idle"
    /\ pc[1] = "idle"
    /\ cookie.user # 0
    /\ cookie' = [cookie EXCEPT !.user = 0]
    /\ bookings' = {b \in bookings : b.user_id # cookie.user}
    /\ UNCHANGED <<now, nextId, cancelled, budget, pc, req, result, pre, mail, new_booking,
                   profiles, authpc, areq, aresult, apre, rt, uow, user_obj, otp>>


\* POST /logout
Logout ==
    /\ authpc = "idle"
    /\ pc[1] = "idle"
    /\ cookie.user # 0
    /\ cookie' = [cookie EXCEPT !.user = 0]
    /\ UNCHANGED <<now, bookVars, profiles, authpc, areq, aresult, apre, rt, uow, user_obj, otp>>

\* POST /admin/login with a password
AdminLogin(password) ==
    /\ authpc = "idle"
    /\ pc[1] = "idle"
    /\ ~cookie.admin
    /\ areq' = [op |-> "admin_login", password |-> password]
    /\ apre' = profiles
    /\ cookie' = [cookie EXCEPT !.admin = (password = AdminPassword)]
    /\ aresult' = [kind |-> IF password = AdminPassword THEN "AdminOk" ELSE "BadPassword",
                   at |-> now]
    /\ authpc' = "done"
    /\ UNCHANGED <<now, bookVars, profiles, rt, uow, user_obj, otp>>

\* GET /admin/dashboard by the admin: db_retry_operation(get_dashboard_data)
AdminDashboard ==
    /\ authpc = "idle"
    /\ pc[1] = "idle"
    /\ cookie.admin
    /\ areq' = [op |-> "admin_dashboard"]
    /\ apre' = profiles
    /\ rt' = StartRetry("get_dashboard_data")
    /\ authpc' = "retry"
    /\ UNCHANGED <<now, bookVars, profiles, cookie, aresult, uow, user_obj, otp>>

\* get_dashboard_data returns the users and the bookings
DashboardOk ==
    /\ authpc = "retry" /\ rt.op = "get_dashboard_data" /\ rt.status = "running"
    /\ rt' = Returned(rt)
    /\ aresult' = [kind |-> "Dashboard", at |-> now]
    /\ authpc' = "done"
    /\ UNCHANGED <<now, bookVars, profiles, cookie, areq, apre, uow, user_obj, otp>>

\* get_dashboard_data raises OperationalError; the handler shows an empty
\* dashboard once the retries are used up
DashboardOpErr ==
    /\ authpc = "retry" /\ rt.op = "get_dashboard_data" /\ rt.status = "running"
    /\ rt' = AfterOperationalError(rt)
    /\ IF rt'.status = "raised"
       THEN /\ aresult' = [kind |-> "DashboardError", at |-> now]
            /\ authpc' = "done"
       ELSE UNCHANGED <<authpc, aresult>>
    /\ UNCHANGED <<now, bookVars, profiles, cookie, areq, apre, uow, user_obj, otp>>

\* POST /admin/logout
AdminLogout ==
    /\ authpc = "idle"
    /\ pc[1] = "idle"
    /\ cookie.admin
    /\ cookie' = [cookie EXCEPT !.admin = FALSE]
    /\ UNCHANGED <<now, bookVars, profiles, authpc, areq, aresult, apre, rt, uow, user_obj, otp>>

\* ------------------------------------- the specification of the whole site
\* one browser and one worker, one request at a time: login, verification,
\* the bookings of the logged-in user, logout and the admin routes
InitAuth ==
    /\ bookings = {}
    /\ nextId = 1
    /\ cancelled = {}
    /\ now = ClockStart
    /\ budget = SiteBookings
    /\ pc = [p \in Procs |-> "idle"]
    /\ req = [p \in Procs |-> NoReq]
    /\ result = [p \in Procs |-> "none"]
    /\ pre = [p \in Procs |-> NoPre]
    /\ mail = [p \in Procs |-> "none"]
    /\ new_booking = [p \in Procs |-> NoRow]
    /\ AuthInit

NextAuth ==
    \/ AuthTick
    \/ \E u \in Users : LoginPost(u)
    \/ GetOrCreateOk
    \/ GetOrCreateOpErr
    \/ \E c \in Codes : LoginSetOtp(c)
    \/ CommitOk
    \/ CommitConflict
    \/ \E l \in BOOLEAN : CommitOpErr(l)
    \/ \E c \in Codes : OtherSignup(c)
    \/ \E d \in BOOLEAN : LoginSendOtp(d)
    \/ AuthRespond
    \/ \E c \in Codes : VerifyPost(c)
    \/ VerifyOk
    \/ \E l \in BOOLEAN : VerifyOpErr(l)
    \/ Logout
    \/ \E w \in {AdminPassword, AdminPassword + 1} : AdminLogin(w)
    \/ AdminDashboard
    \/ DashboardOk
    \/ DashboardOpErr
    \/ AdminLogout
    \/ \E g \in 1..(NumGames + 1), f \in Forms(Dates, Times) :
         authpc = "idle" /\ cookie.user # 0 /\ BookStart(1, cookie.user, g, f)
    \/ Lookup(1)
    \/ Insert(1)
    \/ \E d \in BOOLEAN : Email(1, d)
    \/ StoreFail(1)
    \/ Respond(1)

SpecAuth == InitAuth /\ [][NextAuth]_vars

\* ================================================================ claims
\* a booking request whose outcome has been decided
Finished(p) == pc[p] = "done" /\ req[p].op = "book"

\* the request named an existing game and carried a date and a '%H:%M' time
Complete(p) ==
    /\ Finished(p)
    /\ req[p].game_id \in Games
    /\ "booking_date" \in DOMAIN req[p].form
    /\ "booking_time" \in DOMAIN req[p].form
    /\ WellFormed(req[p].form.booking_time)

\* the policy's table of permitted slots, by day of the week
SlotTable ==
    [w \in 0..6 |->
        CASE w \in {0, 1, 2, 3} -> {<<16, 0>>, <<16, 30>>}
          [] w = 4 -> {<<14, 0>>, <<14, 30>>, <<15, 0>>, <<15, 30>>, <<16, 0>>, <<16, 30>>}
          [] OTHER -> {}]

Permitted(f) == f.booking_time \in SlotTable[Weekday(f.booking_date)]

\* the policy's priority slots: Wednesday 16:00, Friday 15:00, Friday 16:30
PrioritySlots == {<<2, <<16, 0>>>>, <<4, <<15, 0>>>>, <<4, <<16, 30>>>>}
IsPriority(f) == <<Weekday(f.booking_date), f.booking_time>> \in PrioritySlots

\* the request was for a permitted slot later than the clock it was checked against
Admitted(p) ==
    /\ Complete(p)
    /\ Permitted(req[p].form)
    /\ BookingDt(req[p]) > pre[p].now
    /\ result[p] # "ServerError"

\* rows of a ledger snapshot: those still Confirmed, those of a slot, those of a user
Live(snap) == {b \in snap.rows : b.id \notin snap.cancelled}
SlotRows(rows, r) == {b \in rows : b.game_id = r.game_id /\ b.booking_time = BookingDt(r)}
UserRows(rows, u) == {b \in rows : b.user_id = u}
OnDate(rows, d) == {b \in rows : CivilDate(b.booking_time) = d}

\* a row for the request's slot that arrived after the request did and is not its own
Overtaken(p) == \E b \in SlotRows(bookings, req[p]) : b \notin pre[p].rows /\ b # new_booking[p]

\* no two rows of the snapshot are for the same game and instant
NoDuplicates(rows) ==
    \A b1, b2 \in rows :
        (b1.game_id = b2.game_id /\ b1.booking_time = b2.booking_time) => b1 = b2

\* the request left the booking table without a row of its own
NothingWritten(p) == new_booking[p] = NoRow /\ mail[p] = "none"

\* C1: of two requests for the same game and instant that both passed the
\* admission checks while the slot was free, exactly one succeeds and the other
\* is told the slot is taken
C1_ExactlyOneWins ==
    \A p, q \in Procs :
        ( /\ p # q
          /\ Admitted(p) /\ Admitted(q)
          /\ req[p].game_id = req[q].game_id
          /\ BookingDt(req[p]) = BookingDt(req[q])
          /\ SlotRows(pre[p].rows, req[p]) = {} )
        => \/ result[p] = "Success" /\ result[q] = "SlotTaken"
           \/ result[p] = "SlotTaken" /\ result[q] = "Success"

\* C2: the ledger never holds two Confirmed reservations of the same game at
\* the same instant
C2_UniqueLive ==
    \A b1, b2 \in bookings :
        ( /\ b1.id \notin cancelled /\ b2.id \notin cancelled
          /\ b1.game_id = b2.game_id
          /\ b1.booking_time = b2.booking_time )
        => b1 = b2

\* C3: a request is rejected as an invalid slot exactly when its time is not in
\* the table for its date's day of the week, and then nothing is written; a
\* request that reaches the ledger is for a slot of the table
C3_SlotValidation ==
    \A p \in Procs :
        /\ Complete(p) =>
             /\ (result[p] = "InvalidSlot") <=> ~Permitted(req[p].form)
             /\ result[p] = "InvalidSlot" => NothingWritten(p) /\ bookings = pre[p].rows
        /\ pc[p] \in {"lookup", "insert", "email"} => Permitted(req[p].form)

\* C3's case: Friday 13:30, which no day permits, was rejected
C3_Witness ==
    \E p \in Procs :
        /\ Complete(p)
        /\ Weekday(req[p].form.booking_date) = 4
        /\ req[p].form.booking_time = <<13, 30>>
        /\ result[p] = "InvalidSlot"

\* C4: a request for a permitted slot whose instant is not later than the
\* clock, the clock's own instant included, is rejected as past and writes
\* nothing
C4_NotStrictlyFuture ==
    \A p \in Procs :
        ( /\ Complete(p)
          /\ Permitted(req[p].form)
          /\ BookingDt(req[p]) <= pre[p].now
          /\ result[p] # "ServerError" )
        => result[p] = "PastSlot" /\ NothingWritten(p)

\* C5 as claimed: a request for yesterday's date is rejected as past whatever
\* its time of day
C5_YesterdayAlwaysPast ==
    \A p \in Procs :
        (Complete(p) /\ req[p].form.booking_date = CivilDate(pre[p].now) - 1)
        => result[p] = "PastSlot"

\* C5 as amended: a request for yesterday's date is rejected as past when its
\* time is a permitted slot of that day, and as an invalid slot otherwise; it
\* writes nothing either way
C5_YesterdayRejected ==
    \A p \in Procs :
        (Complete(p) /\ req[p].form.booking_date = CivilDate(pre[p].now) - 1)
        => /\ result[p] = IF Permitted(req[p].form) THEN "PastSlot" ELSE "InvalidSlot"
           /\ NothingWritten(p)

\* C5's case: yesterday at a permitted time was rejected as past
C5_Witness ==
    \E p \in Procs :
        /\ Complete(p)
        /\ req[p].form.booking_date = CivilDate(pre[p].now) - 1
        /\ Permitted(req[p].form)
        /\ result[p] = "PastSlot"

\* C6: on a ledger free of duplicates,
\* a user holding exactly two Confirmed reservations on a date is refused a
\* third on that date, on any game, with DailyCapExceeded and nothing written;
\* holding two on the day before and none on the date, the user gets a free
\* slot that is not a priority slot
C6_DailyCap ==
    \A p \in Procs :
        (Admitted(p) /\ NoDuplicates(pre[p].rows)) =>
            LET u == req[p].user_id
                d == req[p].form.booking_date
                mine == UserRows(Live(pre[p]), u)
            IN  /\ ( /\ Cardinality(OnDate(mine, d)) = 2
                     /\ SlotRows(Live(pre[p]), req[p]) = {} )
                   => result[p] = "DailyCapExceeded" /\ NothingWritten(p)
                /\ ( /\ Cardinality(OnDate(mine, d - 1)) = 2
                     /\ OnDate(mine, d) = {}
                     /\ ~IsPriority(req[p].form)
                     /\ SlotRows(Live(pre[p]), req[p]) = {}
                     /\ ~Overtaken(p) )
                   => result[p] = "Success"

\* C7: of the requests for a free priority slot, the one of a user with no
\* reservation of any status succeeds, and the one of a user with a reservation
\* of any status is refused with PriorityReserved and writes nothing
C7_PriorityForNewUsers ==
    \A p \in Procs :
        ( /\ Admitted(p) /\ IsPriority(req[p].form)
          /\ SlotRows(pre[p].rows, req[p]) = {} /\ ~Overtaken(p) ) =>
            IF UserRows(pre[p].rows, req[p].user_id) = {}
            THEN result[p] = "Success"
            ELSE result[p] = "PriorityReserved" /\ NothingWritten(p)

\* C8: with Friday 15:00 of a game held by a user who booked it as a new user,
\* another user with one earlier booking who asks for it is told
\* PriorityReserved, and the holder asking again is told SlotTaken
C8_FridayScenario ==
    \A p \in Procs :
        ( /\ Admitted(p)
          /\ Weekday(req[p].form.booking_date) = 4
          /\ req[p].form.booking_time = <<15, 0>> ) =>
            \A b \in SlotRows(Live(pre[p]), req[p]) :
                (\A c \in UserRows(pre[p].rows, b.user_id) : c.id >= b.id) =>
                    /\ req[p].user_id = b.user_id => result[p] = "SlotTaken"
                    /\ ( /\ req[p].user_id # b.user_id
                         /\ Cardinality(UserRows(pre[p].rows, req[p].user_id)) = 1 )
                       => result[p] = "PriorityReserved"

\* C9: cancelling a Confirmed reservation that lies in the past is refused with
\* PastBooking and leaves it Confirmed; cancelling one that lies in the future
\* makes it Cancelled; and a slot whose reservations are all Cancelled is not
\* reported taken to the next request for it
C9_CancelFreesSlot ==
    \A p \in Procs :
        /\ ( /\ pc[p] = "done" /\ req[p].op = "cancel"
             /\ req[p].id \notin pre[p].cancelled
             /\ result[p] # "Forbidden" ) =>
               \A b \in pre[p].rows :
                   b.id = req[p].id =>
                       /\ b.booking_time < pre[p].now
                            => result[p] = "PastBooking" /\ b.id \notin cancelled
                       /\ b.booking_time > pre[p].now
                            => result[p] = "Cancelled" /\ b.id \in cancelled
        /\ ( /\ Admitted(p)
             /\ SlotRows(pre[p].rows, req[p]) # {}
             /\ SlotRows(Live(pre[p]), req[p]) = {}
             /\ ~Overtaken(p) )
           => result[p] # "SlotTaken"

\* C10: the confirmation is attempted only once the row is in the table, and
\* whether it is delivered or not the row stays as inserted and the request
\* reports success
C10_NotifyAfterCommit ==
    \A p \in Procs :
        /\ pc[p] = "email" => new_booking[p] \in bookings /\ mail[p] = "none"
        /\ mail[p] # "none" =>
             /\ pc[p] = "done"
             /\ result[p] = "Success"
             /\ new_booking[p] \in bookings
             /\ new_booking[p].user_id = req[p].user_id
             /\ new_booking[p].game_id = req[p].game_id
             /\ new_booking[p].booking_time = BookingDt(req[p])

\* C10's case: the confirmation failed and the request is over
C10_Witness ==
    \E p \in Procs : pc[p] = "done" /\ mail[p] = "failed"

\* the ways a booking request is turned down
Rejections == {"ResourceNotFound", "MissingField", "InvalidSlot", "PastSlot", "SlotTaken"}

\* C11: a booking request that ends in a rejection has written no row and
\* attempted no confirmation, and the step that rejects it leaves the booking
\* table as it was; the table changes only by the insert of a request that
\* found its slot free, and such a request then ends in success
C11_RejectionWritesNothing ==
    [][\A p \in Procs :
         /\ (pc[p] # "done" /\ pc'[p] = "done" /\ req'[p].op = "book"
               /\ result'[p] \in Rejections)
            => /\ bookings' = bookings
               /\ pc[p] \in {"idle", "lookup"}
               /\ new_booking'[p] = NoRow
               /\ mail'[p] = "none"
         /\ new_booking'[p] # new_booking[p] /\ new_booking'[p] # NoRow
            => /\ pc[p] = "insert"
               /\ Existing(pre[p].rows, req[p].game_id, BookingDt(req[p])) = {}
               /\ bookings' = bookings \cup {new_booking'[p]}
         /\ bookings' # bookings => \E q \in Procs : new_booking'[q] \in bookings' \ bookings
         /\ (pc[p] = "email" /\ pc'[p] # "email") => result'[p] = "Success"
      ]_vars

\* C11's case: a request was told its slot is taken and the table holds the
\* rows it held before
C11_Witness ==
    \E p \in Procs :
        /\ Finished(p)
        /\ result[p] = "SlotTaken"
        /\ NothingWritten(p)
        /\ bookings = pre[p].rows
        /\ bookings # {}

\* the failure conditions of a booking request in the order the policy gives them
FailureOrder ==
    <<"ResourceNotFound", "InvalidSlot", "PastSlot", "DailyCapExceeded",
      "PriorityReserved", "SlotTaken">>

\* the conditions, by their place in FailureOrder, that the request of p fails
\* on the ledger it arrived at
Failing(p) ==
    LET r == req[p]
        f == r.form
        mine == UserRows(Live(pre[p]), r.user_id)
    IN  {k \in 1..6 :
           \/ k = 1 /\ r.game_id \notin Games
           \/ k = 2 /\ ~Permitted(f)
           \/ k = 3 /\ BookingDt(r) < pre[p].now
           \/ k = 4 /\ Cardinality(OnDate(mine, f.booking_date)) >= 2
           \/ k = 5 /\ IsPriority(f) /\ UserRows(pre[p].rows, r.user_id) # {}
           \/ k = 6 /\ SlotRows(Live(pre[p]), r) # {}}

C13_OnlyTransientRetried ==
    /\ rt.calls = rt.attempt + (IF rt.status \in {"returned", "raised"} THEN 1 ELSE 0)
    /\ rt.attempt >= 1 => rt.last = "OperationalError"
    /\ rt.last = "IntegrityError" =>
         /\ rt.status = "raised"
         /\ authpc = "done"
         /\ aresult.kind = "DbError"
    /\ (authpc = "done" /\ aresult.kind = "InvalidOtp") => rt.status = "returned"
    /\ pc[1] # "idle" =>
         /\ rt = NoRetry
         /\ Cardinality(bookings \ pre[1].rows) <= 1
    /\ (Finished(1) /\ result[1] \in {"SlotTaken", "ResourceNotFound"}) =>
         bookings = pre[1].rows

\* C13's case: the commit of login broke the unique constraint on the username
\* and the error reached the handler
C13_Witness ==
    /\ rt.op = "commit_changes"
    /\ rt.last = "IntegrityError"
    /\ rt.status = "raised"
    /\ rt.calls = 1
    /\ authpc = "done"

\* C14: db_retry_operation invokes its operation at most max_retries times,
\* returns at the first invocation that succeeds and raises the
\* OperationalError of the last one only when all of them failed; and a booking
\* request whose store call fails reports the failure only after
\* db_retry_operation has been through all its attempts on that call
C14_BookingRetriesTransient ==
    /\ rt.calls <= MaxRetries
    /\ (rt.status = "raised" /\ rt.last = "OperationalError") => rt.calls = MaxRetries
    /\ \A p \in Procs :
         (Complete(p) /\ result[p] = "ServerError") =>
             /\ rt.status = "raised"
             /\ rt.calls = MaxRetries

\* C15: no step of booking, login, verification, logout or the admin routes
\* removes or alters a row of the booking table: the table only grows
C15_RowsOnlyGrow == [][bookings \subseteq bookings']_vars

\* C15's case: a row is in the table, its owner has logged out and a login for
\* an OTP has gone through since
C15_Witness ==
    /\ bookings # {}
    /\ cookie.user = 0
    /\ authpc = "done"
    /\ aresult.kind = "OtpSent"

\* C16: when db_retry_operation returns from commit_changes, on a first
\* attempt or on a retry, the row of the user who is logging in is in the store
\* with the hash the request set on it
C16_RetryKeepsWrite ==
    (authpc = "retry" /\ rt.op = "commit_changes" /\ rt.status = "returned") =>
        /\ profiles[areq.user].exists
        /\ profiles[areq.user].otp_hash = Hash(otp)

\* C17: with one request at a time, a request for a permitted slot in the
\* future is told SlotTaken exactly when the table already holds a live row of
\* the same game at the same instant; rows of another game, or of another
\* instant, do not block it
C17_SlotTakenIffSameSlot ==
    (Finished(1) /\ Admitted(1)) =>
        /\ result[1] = "SlotTaken" <=>
             \E b \in Live(pre[1]) :
                 /\ b.game_id = req[1].game_id
                 /\ b.booking_time = BookingDt(req[1])
        /\ result[1] # "SlotTaken" => result[1] = "Success"

\* C17's case: the other game is booked at the instant asked for and the
\* request succeeds
C17_Witness ==
    /\ Finished(1) /\ Admitted(1)
    /\ result[1] = "Success"
    /\ \E b \in pre[1].rows :
          /\ b.game_id # req[1].game_id
          /\ b.booking_time = BookingDt(req[1])

\* C18: the instant stored for a request is its civil date and time less
\* 5h30m; read back in the regional zone, as the confirmation does, it gives
\* the date and the time of the request, on the 24-hour and on the 12-hour
\* clock; and no other permitted date and time has the same instant
C18_CivilRoundTrip ==
    \A p \in Procs :
        (req[p].op = "book" /\ new_booking[p] # NoRow) =>
            LET d == req[p].form.booking_date
                t == req[p].form.booking_time
                i == new_booking[p].booking_time
            IN  /\ i = ((d * 24 + t[1]) * 60 + t[2]) - (5 * 60 + 30)
                /\ i \in {b.booking_time : b \in bookings}
                /\ CivilDate(i) = d
                /\ CivilTime(i) = t
                /\ DateStr(i) = <<d % 7, d>>
                /\ TimeStr(i) = <<t[1] - 12, t[2], "PM">>
                /\ \A d2 \in SlotDates, t2 \in SlotTimes :
                     (Permitted([booking_date |-> d2, booking_time |-> t2])
                        /\ ToUtc(d2, t2) = i)
                     => d2 = d /\ t2 = t

\* C18's case: Wednesday 16:30 of the second week is stored and confirmed
C18_Witness ==
    \E p \in Procs :
        /\ Finished(p)
        /\ result[p] = "Success"
        /\ req[p].form = [booking_date |-> 9, booking_time |-> <<16, 30>>]
        /\ new_booking[p].booking_time = ToUtc(9, <<16, 30>>)
        /\ mail[p] = "sent"

\* C19: when login answers that an OTP has been sent, the row of the username
\* is in the store with the hash of the code that was mailed and with the
\* expiry set with it, five minutes after the request read the clock
C19_SentOtpIsStored ==
    (authpc = "done" /\ areq.op = "login" /\ aresult.kind = "OtpSent") =>
        /\ cookie.verify = areq.user
        /\ profiles[areq.user].exists
        /\ profiles[areq.user].otp_hash = Hash(otp)
        /\ profiles[areq.user].otp_expiry = aresult.at + OtpLifetime

\* C20: verify_otp logs a user in only when the row of the username held a
\* hash, its expiry was later than the clock and the submitted code matched the
\* hash, and the login leaves the row without hash and without expiry, so that
\* no code verifies until login stores a new one; a login for a username that
\* has a row, once committed, leaves the hash and the expiry of the new code in
\* place of the old ones; a row holds a hash and an expiry together or neither
C20_OtpOnceWhileCurrent ==
    /\ (authpc = "done" /\ areq.op = "verify" /\ aresult.kind = "LoggedIn") =>
         LET u == areq.user IN
           /\ u \in Users
           /\ apre[u].exists
           /\ apre[u].otp_hash # 0
           /\ apre[u].otp_expiry > aresult.at
           /\ CheckPasswordHash(apre[u].otp_hash, areq.code)
           /\ profiles[u].otp_hash = 0
           /\ profiles[u].otp_expiry = 0
           /\ ~IsValid(profiles, u, areq.code, now)
           /\ cookie.user = u
           /\ cookie.verify = 0
    /\ ( /\ authpc = "done" /\ areq.op = "login"
         /\ aresult.kind \in {"OtpSent", "MailFailed"}
         /\ apre[areq.user].exists ) =>
         /\ profiles[areq.user].otp_hash = Hash(otp)
         /\ profiles[areq.user].otp_expiry = aresult.at + OtpLifetime
         /\ \A c \in Codes : IsValid(profiles, areq.user, c, now) => c = otp
    /\ \A u \in Users : profiles[u].otp_hash = 0 <=> profiles[u].otp_expiry = 0

\* C20's case: a code was accepted on the retry that followed a store error,
\* and the row holds no OTP any more
C20_Witness ==
    /\ authpc = "done"
    /\ areq.op = "verify"
    /\ aresult.kind = "LoggedIn"
    /\ rt.attempt = 1
    /\ profiles[areq.user].otp_hash = 0

====
